---- MODULE Spec2Model ----
(***************************************************************************)
(* The FINDEX dashboard of src/App.py as a state machine.                  *)
(*                                                                         *)
(* One behaviour is one server process serving one browser session: the    *)
(* script of App.py is re-run from its first line on every interaction.   *)
(* A run calls load_data (memoised), reads the three sidebar multiselects, *)
(* filters, reads the selectbox, dispatches to one chart branch and shows  *)
(* the data table.  st.stop() ends a run early.                            *)
(*                                                                         *)
(* A data frame is a sequence of records; every row carries its pandas     *)
(* index label in the field "index", so that equal respondents stay        *)
(* distinct rows.  NaN of a label column is the value Missing.  inc_q is   *)
(* an integer code that is present in every row.                           *)
(***************************************************************************)
EXTENDS Integers, Sequences, FiniteSets, TLC

VARIABLES
    source,                 \* the table served at file_path (line 12)
    cached,                 \* st.cache_data holds an entry for load_data
    cache,                  \* the entry: the enriched table
    fresh,                  \* the session's widgets still hold their defaults
    widgets,                \* the session's widget values set by the user
    pc,                     \* position of the current script run
    data_cleaned,           \* line 39
    selected_age_group,     \* line 51
    select_education,       \* line 60
    selected_income,        \* line 67
    visualization_option,   \* line 75
    filtered_dataframe,     \* lines 55, 64, 71
    page                    \* the elements the run has handed to the renderer

vars == <<source, cached, cache, fresh, widgets, pc, data_cleaned,
          selected_age_group, select_education, selected_income,
          visualization_option, filtered_dataframe, page>>

-----------------------------------------------------------------------------
(* Bounds of the model *)

MaxRows == 3
MaxAge == 61
MaxCode == 3

-----------------------------------------------------------------------------
(* load_data: the derived columns, lines 16-34 *)

Missing == "NaN"

bin_edges == <<18, 25, 35, 45, 60>>
bin_labels == <<"18-24", "25-34", "35-44", "45-59">>

\* numpy searchsorted(bins, x, side): the number of edges e with e <= x
\* (side = "right") or e < x (side = "left").
searchsorted(bins, x, side) ==
    Cardinality({i \in DOMAIN bins :
                    IF side = "right" THEN bins[i] <= x ELSE bins[i] < x})

\* pd.cut(x, bins, labels, right): cut looks x up with side "left" when the
\* intervals are closed on the right and with side "right" otherwise; an x
\* before the first edge or not before the last one is NaN.
pd_cut_right(x, bins, labels) ==
    LET ids == searchsorted(bins, x, "left")
    IN  IF ids = 0 \/ ids = Len(bins) THEN Missing ELSE labels[ids]

pd_cut(x, bins, labels) ==
    LET ids == searchsorted(bins, x, "right")
    IN  IF ids = 0 \/ ids = Len(bins) THEN Missing ELSE labels[ids]

educ_labels == (1 :> "Primary School or Less") @@ (2 :> "Secondary School")
               @@ (3 :> "Tertiary Education or More")
gender_labels == (1 :> "Female") @@ (2 :> "Male")
digital_labels == (0 :> "No digital payments") @@ (1 :> "There are digital payments")

\* Series.map(dict) with every unmapped code taking the dict's first label
map_default(labels, code) ==
    IF code \in DOMAIN labels THEN labels[code]
    ELSE labels[CHOOSE k \in DOMAIN labels : \A j \in DOMAIN labels : k <= j]

\* Series.map(dict): a code that is no key of the dict becomes NaN
map(labels, code) ==
    IF code \in DOMAIN labels THEN labels[code] ELSE Missing

\* One row of the frame load_data returns: the row read_csv gave it (with
\* its RangeIndex label) and the four added columns.
EnrichRow(raw, i) ==
    [index |-> i - 1,
     age |-> raw.age, educ |-> raw.educ, female |-> raw.female,
     inc_q |-> raw.inc_q, anydigpayment |-> raw.anydigpayment,
     regionwb |-> raw.regionwb, saved |-> raw.saved, borrowed |-> raw.borrowed,
     AgeGroup |-> pd_cut(raw.age, bin_edges, bin_labels),
     educ_label |-> map(educ_labels, raw.educ),
     Gender |-> map(gender_labels, raw.female),
     DigitalPayments |-> map(digital_labels, raw.anydigpayment)]

Enrich(table) == [i \in DOMAIN table |-> EnrichRow(table[i], i)]

-----------------------------------------------------------------------------
(* Data frame helpers *)

\* Series.unique() of a column, as a set
unique(df, col) == {df[i][col] : i \in DOMAIN df}

Rows(df) == {df[i] : i \in DOMAIN df}

\* `if not selection:` of lines 52, 61 and 68, with the test dropped
never_empty(sel) == FALSE

\* `if not selection:` of lines 52, 61 and 68
is_empty(sel) == sel = {}

-----------------------------------------------------------------------------
(* The three filter statements, lines 55, 64 and 71.  Each gets the frame   *)
(* load_data returned and the frame the previous statement left in          *)
(* filtered_dataframe, and gives the new value of filtered_dataframe.       *)

AgeStep(data, prev, sel) ==
    LET isin(r) == r.AgeGroup \in sel IN SelectSeq(data, isin)

EducStep(data, prev, sel) ==
    LET isin(r) == r.educ_label \in sel IN SelectSeq(prev, isin)

\* the income statement with the membership test negated
IncomeStepNegated(data, prev, sel) ==
    LET isin(r) == r.inc_q \notin sel IN SelectSeq(data, isin)

IncomeStep(data, prev, sel) ==
    LET isin(r) == r.inc_q \in sel IN SelectSeq(data, isin)

-----------------------------------------------------------------------------
(* The chart branches, lines 84-154 *)

RECURSIVE Gcd(_, _)
Gcd(a, b) == IF b = 0 THEN a ELSE Gcd(b, a % b)

RECURSIVE SumCol(_, _)
SumCol(df, col) ==
    IF df = <<>> THEN 0 ELSE Head(df)[col] + SumCol(Tail(df), col)

\* Series.sum() in the place of Series.mean()
sum_as_fraction(df, col) == [num |-> SumCol(df, col), den |-> 1]

\* Series.mean() of a column of a non-empty frame, as a fraction in lowest
\* terms
mean(df, col) ==
    LET s == SumCol(df, col)
        n == Len(df)
        g == Gcd(s, n)
    IN  [num |-> s \div g, den |-> n \div g]

\* value_counts() keeping NaN (dropna=False)
value_counts_keepna(df, col) ==
    {[value |-> v, count |-> Cardinality({i \in DOMAIN df : df[i][col] = v})] :
        v \in unique(df, col)}

\* Series.value_counts(): one entry per value of the column that is not
\* NaN (dropna=True is the default), with the number of rows holding it.
\* The entries' order (by falling count) is not modelled.
value_counts(df, col) ==
    {[value |-> v, count |-> Cardinality({i \in DOMAIN df : df[i][col] = v})] :
        v \in unique(df, col) \ {Missing}}

\* lines 87-88
pie_chart_data(df) ==
    {[Gender |-> e.value, count |-> e.count] : e \in value_counts(df, "Gender")}

\* lines 103 and 121: groupby(['educ_label', 'inc_q'])[col].mean()
\* .reset_index().  groupby drops the rows whose key is NaN (dropna=True is
\* the default); the result has one row per remaining key pair.
saving_by_educ_income(df, col) ==
    LET keyed(r) == r.educ_label # Missing
        kept == SelectSeq(df, keyed)
        keys == {<<kept[i].educ_label, kept[i].inc_q>> : i \in DOMAIN kept}
        group(k) == LET isin(r) == r.educ_label = k[1] /\ r.inc_q = k[2]
                    IN  SelectSeq(kept, isin)
    IN  {[educ_label |-> k[1], inc_q |-> k[2], value |-> mean(group(k), col),
          column |-> col] : k \in keys}

\* line 75-81: the options of the selectbox (the emoji that ends each
\* option is written as a word in brackets)
VisualizationOptions ==
    <<"Distribution by Gender [person]",
      "Proportion of People Who Save by Education Level and Income Quantile [money-face]",
      "Proportion of People Who Borrow by Education Level and Income Quantile [money-wings]",
      "Digital payments across regions [phone]">>

Chart(title, data) == [type |-> "chart", title |-> title, data |-> data]

\* the if/elif chain with its last branch missing
build_chart_three(option, df) ==
    IF option = "Distribution by Gender [person]"
    THEN <<Chart("Distribution by Gender", pie_chart_data(df))>>
    ELSE IF option = "Proportion of People Who Save by Education Level and Income Quantile [money-face]"
    THEN <<Chart("Proportion of People Who Save by Education Level and Income Quantile",
                 saving_by_educ_income(df, "saved"))>>
    ELSE IF option = "Proportion of People Who Borrow by Education Level and Income Quantile [money-wings]"
    THEN <<Chart("Proportion of People Who Borrow by Education Level and Income Quantile",
                 saving_by_educ_income(df, "borrowed"))>>
    ELSE <<>>

\* lines 84-154: the if/elif chain; the charts it hands to st.altair_chart.
\* The bar chart is given filtered_dataframe itself (line 141).
build_chart(option, df) ==
    IF option = "Distribution by Gender [person]"
    THEN <<Chart("Distribution by Gender", pie_chart_data(df))>>
    ELSE IF option = "Proportion of People Who Save by Education Level and Income Quantile [money-face]"
    THEN <<Chart("Proportion of People Who Save by Education Level and Income Quantile",
                 saving_by_educ_income(df, "saved"))>>
    ELSE IF option = "Proportion of People Who Borrow by Education Level and Income Quantile [money-wings]"
    THEN <<Chart("Proportion of People Who Borrow by Education Level and Income Quantile",
                 saving_by_educ_income(df, "borrowed"))>>
    ELSE IF option = "Digital payments across regions [phone]"
    THEN <<Chart("Digital Payments by Region", df)>>
    ELSE <<>>

-----------------------------------------------------------------------------
(* The tables the remote file may hold *)

RowPool ==
    {[age |-> 20, educ |-> 1, female |-> 1, inc_q |-> 2, anydigpayment |-> 0,
      regionwb |-> "South Asia", saved |-> 1, borrowed |-> 0],
     [age |-> 30, educ |-> 2, female |-> 2, inc_q |-> 2, anydigpayment |-> 1,
      regionwb |-> "South Asia", saved |-> 0, borrowed |-> 1],
     [age |-> 24, educ |-> 1, female |-> 1, inc_q |-> 2, anydigpayment |-> 1,
      regionwb |-> "High income", saved |-> 0, borrowed |-> 0],
     [age |-> 60, educ |-> 4, female |-> 3, inc_q |-> 1, anydigpayment |-> 1,
      regionwb |-> "High income", saved |-> 1, borrowed |-> 1]}

RawTables == UNION {[1..n -> RowPool] : n \in 1..MaxRows}

\* one-row tables over every age and every code up to the bounds
ProbeTables ==
    {<<[age |-> a, educ |-> e, female |-> f, inc_q |-> 1, anydigpayment |-> d,
        regionwb |-> "South Asia", saved |-> 1, borrowed |-> 0]>> :
        a \in 0..MaxAge, e \in 0..MaxCode, f \in 0..MaxCode, d \in 0..MaxCode}

-----------------------------------------------------------------------------
(* The script *)

NoWidgets == [age |-> {}, educ |-> {}, income |-> {}, vis |-> ""]

ScriptStart ==
    /\ data_cleaned = <<>>
    /\ selected_age_group = {}
    /\ select_education = {}
    /\ selected_income = {}
    /\ visualization_option = ""
    /\ filtered_dataframe = <<>>
    /\ page = <<>>

\* The process has started and a browser has opened the page: nothing is
\* cached, the widgets hold their defaults, the first run is about to begin.
InitCommon ==
    /\ cached = FALSE
    /\ cache = <<>>
    /\ fresh = TRUE
    /\ widgets = NoWidgets
    /\ pc = "run"
    /\ ScriptStart

Init == source \in RawTables /\ InitCommon

InitProbe == source \in ProbeTables /\ InitCommon

\* lines 9-39: data_cleaned = load_data().  The first call reads the file
\* and stores the enriched table; every later call gets the stored table.
load_data ==
    /\ pc = "run"
    /\ IF cached
       THEN /\ data_cleaned' = cache
            /\ UNCHANGED <<cached, cache>>
       ELSE /\ cache' = Enrich(source)
            /\ cached' = TRUE
            /\ data_cleaned' = Enrich(source)
    /\ pc' = "age"
    /\ UNCHANGED <<source, fresh, widgets, selected_age_group, select_education,
                   selected_income, visualization_option, filtered_dataframe, page>>

\* st.sidebar.multiselect(label, options, default=options): the options
\* while the session has not touched the widget, the user's choice after.
multiselect(key, options) == IF fresh THEN options ELSE widgets[key]

\* st.selectbox(label, options): the first option by default
selectbox(options) == IF fresh THEN options[1] ELSE widgets.vis

Warning(text) == [type |-> "warning", text |-> text]

\* lines 51-55
AgeGroupFilter ==
    /\ pc = "age"
    /\ LET sel == multiselect("age", unique(data_cleaned, "AgeGroup"))
       IN  /\ selected_age_group' = sel
           /\ IF is_empty(sel)
              THEN /\ page' = Append(page, Warning("Please select an age group from the sidebar"))
                   /\ pc' = "stopped"
                   /\ UNCHANGED filtered_dataframe
              ELSE /\ filtered_dataframe' = AgeStep(data_cleaned, filtered_dataframe, sel)
                   /\ pc' = "educ"
                   /\ UNCHANGED page
    /\ UNCHANGED <<source, cached, cache, fresh, widgets, data_cleaned,
                   select_education, selected_income, visualization_option>>

\* lines 59-64
EducationFilter ==
    /\ pc = "educ"
    /\ LET sel == multiselect("educ", unique(data_cleaned, "educ_label"))
       IN  /\ select_education' = sel
           /\ IF is_empty(sel)
              THEN /\ page' = Append(page, Warning("Please select an education level"))
                   /\ pc' = "stopped"
                   /\ UNCHANGED filtered_dataframe
              ELSE /\ filtered_dataframe' = EducStep(data_cleaned, filtered_dataframe, sel)
                   /\ pc' = "income"
                   /\ UNCHANGED page
    /\ UNCHANGED <<source, cached, cache, fresh, widgets, data_cleaned,
                   selected_age_group, selected_income, visualization_option>>

\* lines 67-71
IncomeFilter ==
    /\ pc = "income"
    /\ LET sel == multiselect("income", unique(data_cleaned, "inc_q"))
       IN  /\ selected_income' = sel
           /\ IF is_empty(sel)
              THEN /\ page' = Append(page, Warning("Please select an income group from the sidebar"))
                   /\ pc' = "stopped"
                   /\ UNCHANGED filtered_dataframe
              ELSE /\ filtered_dataframe' = IncomeStep(data_cleaned, filtered_dataframe, sel)
                   /\ pc' = "select"
                   /\ UNCHANGED page
    /\ UNCHANGED <<source, cached, cache, fresh, widgets, data_cleaned,
                   selected_age_group, select_education, visualization_option>>

\* lines 75-81
SelectVisualization ==
    /\ pc = "select"
    /\ visualization_option' = selectbox(VisualizationOptions)
    /\ pc' = "chart"
    /\ UNCHANGED <<source, cached, cache, fresh, widgets, data_cleaned,
                   selected_age_group, select_education, selected_income,
                   filtered_dataframe, page>>

\* lines 84-154
Visualize ==
    /\ pc = "chart"
    /\ page' = page \o build_chart(visualization_option, filtered_dataframe)
    /\ pc' = "table"
    /\ UNCHANGED <<source, cached, cache, fresh, widgets, data_cleaned,
                   selected_age_group, select_education, selected_income,
                   visualization_option, filtered_dataframe>>

\* lines 157-158: st.dataframe(filtered_dataframe); the static text that
\* follows (lines 161-173) reads no state.
DatasetOverview ==
    /\ pc = "table"
    /\ page' = Append(page, [type |-> "dataframe", data |-> filtered_dataframe])
    /\ pc' = "done"
    /\ UNCHANGED <<source, cached, cache, fresh, widgets, data_cleaned,
                   selected_age_group, select_education, selected_income,
                   visualization_option, filtered_dataframe>>

\* The values the session's widgets hold: their defaults (every option of
\* a multiselect, the first option of the selectbox) until the user has
\* changed one.
WidgetValues ==
    IF fresh
    THEN [age |-> unique(cache, "AgeGroup"), educ |-> unique(cache, "educ_label"),
          income |-> unique(cache, "inc_q"), vis |-> VisualizationOptions[1]]
    ELSE widgets

\* The user changes one widget of the page a run has drawn (lines 51, 60,
\* 67 and 75 offer the options): the page is cleared and the script runs
\* again from its first line.  A widget keeps its value from run to run,
\* also over a run that stopped before reaching it.
Interact ==
    /\ pc \in {"done", "stopped"}
    /\ \/ \E a \in SUBSET unique(cache, "AgeGroup") :
              widgets' = [WidgetValues EXCEPT !.age = a]
       \/ \E e \in SUBSET unique(cache, "educ_label") :
              widgets' = [WidgetValues EXCEPT !.educ = e]
       \/ \E q \in SUBSET unique(cache, "inc_q") :
              widgets' = [WidgetValues EXCEPT !.income = q]
       \/ \E v \in 1..Len(VisualizationOptions) :
              widgets' = [WidgetValues EXCEPT !.vis = VisualizationOptions[v]]
    /\ fresh' = FALSE
    /\ pc' = "run"
    /\ data_cleaned' = <<>>
    /\ selected_age_group' = {}
    /\ select_education' = {}
    /\ selected_income' = {}
    /\ visualization_option' = ""
    /\ filtered_dataframe' = <<>>
    /\ page' = <<>>
    /\ UNCHANGED <<source, cached, cache>>

Next ==
    \/ load_data
    \/ AgeGroupFilter
    \/ EducationFilter
    \/ IncomeFilter
    \/ SelectVisualization
    \/ Visualize
    \/ DatasetOverview
    \/ Interact

Spec == Init /\ [][Next]_vars

SpecProbe == InitProbe /\ [][Next]_vars

-----------------------------------------------------------------------------
(* Properties *)

\* The selections of the current run, whether the run has read them yet or
\* not: the widgets' values.
AgeSelection == multiselect("age", unique(cache, "AgeGroup"))
EducSelection == multiselect("educ", unique(cache, "educ_label"))
IncomeSelection == multiselect("income", unique(cache, "inc_q"))

\* The rows of a frame whose three columns are each in their selection
ConjunctiveView(df, a, e, q) ==
    LET isin(r) == r.AgeGroup \in a /\ r.educ_label \in e /\ r.inc_q \in q
    IN  SelectSeq(df, isin)

\* Lines 55-71 run in the order the script has them
Pipeline(data, a, e, q) ==
    IncomeStep(data, EducStep(data, AgeStep(data, data, a), e), q)

\* C1: in a run that no empty selection halts, the view handed to the chart
\* and to the table is exactly the rows whose AgeGroup, educ_label and inc_q
\* are each in their selection.
C1_ViewIsConjunction ==
    pc = "done" =>
        /\ filtered_dataframe =
               ConjunctiveView(data_cleaned, selected_age_group,
                               select_education, selected_income)
        /\ page[Len(page)].data =
               ConjunctiveView(data_cleaned, selected_age_group,
                               select_education, selected_income)

\* C2: a run with an empty selection in any of the three dimensions never
\* gets past the filters, puts no chart and no table on the page, and where
\* it stops the page holds only the warning of an empty dimension.
C2_EmptySelectionHalts ==
    (cached /\ (AgeSelection = {} \/ EducSelection = {} \/ IncomeSelection = {})) =>
        /\ pc \in {"run", "age", "educ", "income", "stopped"}
        /\ \A i \in DOMAIN page : page[i].type = "warning"
        /\ pc = "stopped" =>
              /\ Len(page) = 1
              /\ \/ AgeSelection = {}
                    /\ page[1].text = "Please select an age group from the sidebar"
                 \/ EducSelection = {}
                    /\ page[1].text = "Please select an education level"
                 \/ IncomeSelection = {}
                    /\ page[1].text = "Please select an income group from the sidebar"

\* a run stopped by an empty education selection while the age and income
\* selections are not empty
C2_Witness ==
    /\ pc = "stopped"
    /\ AgeSelection # {}
    /\ EducSelection = {}
    /\ IncomeSelection # {}
    /\ page = <<Warning("Please select an education level")>>

Orders ==
    {o \in [1..3 -> {"age", "educ", "income"}] : \A i, j \in 1..3 : o[i] = o[j] => i = j}

StepOf(k, data, prev, a, e, q) ==
    CASE k = "age" -> AgeStep(data, prev, a)
      [] k = "educ" -> EducStep(data, prev, e)
      [] k = "income" -> IncomeStep(data, prev, q)

RunOrder(o, data, a, e, q) ==
    StepOf(o[3], data, StepOf(o[2], data, StepOf(o[1], data, data, a, e, q), a, e, q), a, e, q)

\* C3: the three filter statements give the same rows in each of their six
\* orders, and a statement run twice in a row gives what it gives run once.
C3_CommutativeIdempotent ==
    pc = "done" =>
        LET d == data_cleaned
            a == selected_age_group
            e == select_education
            q == selected_income
        IN  /\ \A o \in Orders : RunOrder(o, d, a, e, q) = filtered_dataframe
            /\ \A k \in {"age", "educ", "income"} : \A o \in Orders :
                   LET prev == RunOrder(o, d, a, e, q)
                   IN  StepOf(k, d, StepOf(k, d, prev, a, e, q), a, e, q)
                           = StepOf(k, d, prev, a, e, q)

\* C4: the view of a finished run holds every row of the view that the
\* script gives, over the same table, for any selections that are subsets of
\* the run's selections, dimension by dimension.
C4_Monotone ==
    pc = "done" =>
        \A a \in SUBSET selected_age_group \ {{}} :
        \A e \in SUBSET select_education \ {{}} :
        \A q \in SUBSET selected_income \ {{}} :
            /\ Rows(Pipeline(data_cleaned, a, e, q)) \subseteq Rows(filtered_dataframe)
            /\ Len(Pipeline(data_cleaned, a, e, q)) <= Len(filtered_dataframe)

\* a finished run one of whose smaller selections gives strictly fewer rows
C4_Witness ==
    /\ pc = "done"
    /\ \E q \in SUBSET selected_income \ {{}} :
           /\ Len(Pipeline(data_cleaned, selected_age_group, select_education, q)) > 0
           /\ Len(Pipeline(data_cleaned, selected_age_group, select_education, q))
                  < Len(filtered_dataframe)

\* C5: AgeGroup is "18-24" for 18 <= age < 25, "25-34" for 25 <= age < 35,
\* "35-44" for 35 <= age < 45, "45-59" for 45 <= age < 60 and missing for
\* age < 18 and for age >= 60.
C5_AgeGroupBins ==
    cached =>
        \A i \in DOMAIN cache :
            LET a == source[i].age
                g == cache[i].AgeGroup
            IN  /\ (18 <= a /\ a < 25) => g = "18-24"
                /\ (25 <= a /\ a < 35) => g = "25-34"
                /\ (35 <= a /\ a < 45) => g = "35-44"
                /\ (45 <= a /\ a < 60) => g = "45-59"
                /\ (a < 18 \/ a >= 60) => g = Missing

\* the loaded table has a row of age 25, in the bin "25-34"
C5_Witness ==
    /\ cached
    /\ \E i \in DOMAIN cache : source[i].age = 25 /\ cache[i].AgeGroup = "25-34"

RECURSIVE SumCounts(_)
SumCounts(S) ==
    IF S = {} THEN 0
    ELSE LET s == CHOOSE x \in S : TRUE IN s.count + SumCounts(S \ {s})

CountWhere(df, col, v) == Cardinality({i \in DOMAIN df : df[i][col] = v})

GenderChartShown ==
    /\ pc \in {"table", "done"}
    /\ visualization_option = VisualizationOptions[1]
    /\ Len(page) >= 1
    /\ page[1].type = "chart"

\* C6 as stated: the pie has one segment for every Gender value of the view,
\* the missing value included, each counting the view's rows with that
\* value, and the counts sum to the view's row count.
C6_MissingGenderCounted ==
    GenderChartShown =>
        LET segs == page[1].data
            view == filtered_dataframe
        IN  /\ {s.Gender : s \in segs} = unique(view, "Gender")
            /\ Cardinality(segs) = Cardinality(unique(view, "Gender"))
            /\ \A s \in segs : s.count = CountWhere(view, "Gender", s.Gender)
            /\ SumCounts(segs) = Len(view)

\* C6 as amended: the pie has one segment for every Gender value of the view
\* that is not missing, each counting the view's rows with that value; rows
\* whose Gender is missing are in no segment, and the counts sum to the
\* number of view rows whose Gender is not missing.
C6_SegmentsPerStatedGender ==
    GenderChartShown =>
        LET segs == page[1].data
            view == filtered_dataframe
            stated == unique(view, "Gender") \ {Missing}
        IN  /\ {s.Gender : s \in segs} = stated
            /\ Cardinality(segs) = Cardinality(stated)
            /\ \A s \in segs : s.count = CountWhere(view, "Gender", s.Gender)
            /\ SumCounts(segs) = Len(view) - CountWhere(view, "Gender", Missing)

\* the pie is drawn for a view with a row of missing Gender and a row of
\* stated Gender
C6_Witness ==
    /\ GenderChartShown
    /\ Missing \in unique(filtered_dataframe, "Gender")
    /\ unique(filtered_dataframe, "Gender") # {Missing}
    /\ page[1].data # {}

\* C7: educ_label, Gender and DigitalPayments are given by the code of
\* their own source column alone: the codes of the three tables map to
\* their labels, every other code maps to missing, and the source columns
\* keep their values.
C7_LabelsFromCodes ==
    cached =>
        /\ Len(cache) = Len(source)
        /\ \A i \in DOMAIN cache :
            LET r == cache[i]
                s == source[i]
            IN  /\ r.educ_label =
                       (CASE s.educ = 1 -> "Primary School or Less"
                          [] s.educ = 2 -> "Secondary School"
                          [] s.educ = 3 -> "Tertiary Education or More"
                          [] OTHER -> Missing)
                /\ r.Gender =
                       (CASE s.female = 1 -> "Female"
                          [] s.female = 2 -> "Male"
                          [] OTHER -> Missing)
                /\ r.DigitalPayments =
                       (CASE s.anydigpayment = 0 -> "No digital payments"
                          [] s.anydigpayment = 1 -> "There are digital payments"
                          [] OTHER -> Missing)
                /\ \A f \in DOMAIN s : r[f] = s[f]

\* the loaded table has a row whose three codes are all outside their tables
C7_Witness ==
    /\ cached
    /\ \E i \in DOMAIN cache :
           /\ source[i].educ = 0 /\ cache[i].educ_label = Missing
           /\ source[i].female = 3 /\ cache[i].Gender = Missing
           /\ source[i].anydigpayment = 2 /\ cache[i].DigitalPayments = Missing

HeatColumn ==
    IF visualization_option = VisualizationOptions[2] THEN "saved" ELSE "borrowed"

HeatMapShown ==
    /\ pc \in {"table", "done"}
    /\ visualization_option \in {VisualizationOptions[2], VisualizationOptions[3]}
    /\ Len(page) >= 1
    /\ page[1].type = "chart"

PairRows(df, l, q) ==
    LET isin(r) == r.educ_label = l /\ r.inc_q = q IN SelectSeq(df, isin)

\* the cell's value is the mean of the column over the frame's rows
IsMeanOf(value, df, col) ==
    /\ value.den > 0
    /\ value.num * Len(df) = value.den * SumCol(df, col)

CellsMatch(cells, view, labels) ==
    /\ \A l \in labels : \A q \in unique(view, "inc_q") :
           PairRows(view, l, q) # <<>> =>
               /\ Cardinality({c \in cells : c.educ_label = l /\ c.inc_q = q}) = 1
               /\ \A c \in cells :
                      (c.educ_label = l /\ c.inc_q = q) =>
                          /\ c.column = HeatColumn
                          /\ IsMeanOf(c.value, PairRows(view, l, q), HeatColumn)
    /\ \A c \in cells :
           c.educ_label \in labels /\ PairRows(view, c.educ_label, c.inc_q) # <<>>

\* C8 as stated: every (educ_label, inc_q) pair of the view, a missing
\* educ_label included, has exactly one cell, holding the mean of the
\* column over the view's rows of that pair, and there is no other cell.
C8_EveryPairHasCell ==
    HeatMapShown =>
        CellsMatch(page[1].data, filtered_dataframe,
                   unique(filtered_dataframe, "educ_label"))

\* C8 as amended: every (educ_label, inc_q) pair of the view whose
\* educ_label is not missing has exactly one cell, holding the mean of saved
\* (or borrowed) over the view's rows of that pair; there is no other cell,
\* so rows whose educ_label is missing are in no cell.
C8_CellPerLabelledPair ==
    HeatMapShown =>
        CellsMatch(page[1].data, filtered_dataframe,
                   unique(filtered_dataframe, "educ_label") \ {Missing})

\* the saving heat map is drawn for a view holding a row of missing
\* educ_label and two rows of one pair that differ in saved: a cell of 1/2
C8_Witness ==
    /\ HeatMapShown
    /\ HeatColumn = "saved"
    /\ Missing \in unique(filtered_dataframe, "educ_label")
    /\ \E c \in page[1].data : c.value = [num |-> 1, den |-> 2]

ExpectedTitle(option) ==
    CASE option = VisualizationOptions[1] -> "Distribution by Gender"
      [] option = VisualizationOptions[2] ->
             "Proportion of People Who Save by Education Level and Income Quantile"
      [] option = VisualizationOptions[3] ->
             "Proportion of People Who Borrow by Education Level and Income Quantile"
      [] option = VisualizationOptions[4] -> "Digital Payments by Region"

ChartsOn(p) == {i \in DOMAIN p : p[i].type = "chart"}
TablesOn(p) == {i \in DOMAIN p : p[i].type = "dataframe"}

\* C10: a run that no empty selection halts ends with exactly one chart on
\* the page, the chart of the selected visualization, followed by the table
\* of the filtered view; at no point does a page hold a table without
\* exactly one chart before it, or more than one chart.
C10_OneChartThenTable ==
    /\ Cardinality(ChartsOn(page)) <= 1
    /\ TablesOn(page) # {} => (ChartsOn(page) = {1} /\ TablesOn(page) = {2})
    /\ pc = "done" =>
          /\ visualization_option \in {VisualizationOptions[i] : i \in 1..4}
          /\ Len(page) = 2
          /\ page[1].type = "chart"
          /\ page[1].title = ExpectedTitle(visualization_option)
          /\ page[2] = [type |-> "dataframe", data |-> filtered_dataframe]
          /\ visualization_option = VisualizationOptions[4] =>
                 page[1].data = page[2].data

\* a finished run of the fourth visualization
C10_Witness ==
    /\ pc = "done"
    /\ visualization_option = VisualizationOptions[4]
    /\ Len(page) = 2
    /\ page[1].title = "Digital Payments by Region"

====
